---- MODULE Spec2Model ----
(***************************************************************************)
(* Density-matrix simulator of rust_sim: the QuantumSimulator object, its  *)
(* DensityMatrix, the gate catalog and the noise model.                    *)
(*                                                                         *)
(* Numbers.  The program computes in Complex<f64>.  The model computes in  *)
(* exact arithmetic: a number is a finite sum of terms  c * sqrt(r)  with  *)
(* r a squarefree positive integer and c a Gaussian rational, which is     *)
(* closed under the +, -, *, conj and the square roots of rationals the    *)
(* program takes.  A number is the set of its terms <<r, re, im, den>>,    *)
(* one per radicand r with a nonzero coefficient (re + i*im)/den in lowest *)
(* terms with den > 0, so equal numbers are equal values.  NaN, the square *)
(* root of a negative number and whatever is computed from it, is one more *)
(* value.                                                                  *)
(***************************************************************************)
EXTENDS Integers, Sequences, FiniteSets, TLC

Abs(a) == IF a < 0 THEN -a ELSE a

RECURSIVE GCD(_, _)
GCD(a, b) == IF b = 0 THEN a ELSE GCD(b, a % b)

\* f itself, as a table of its values
Tab(f) == f @@ << >>


\* Gaussian rationals <<re, im, den>>
GNorm(a, b, d) ==
    LET g == GCD(GCD(Abs(a), Abs(b)), d)
    IN  IF g = 1 THEN <<a, b, d>> ELSE <<a \div g, b \div g, d \div g>>

G0 == <<0, 0, 1>>

GAdd(p, q) ==
    IF p[3] = q[3]
    THEN GNorm(p[1] + q[1], p[2] + q[2], p[3])
    ELSE LET g  == GCD(p[3], q[3])
             mp == q[3] \div g
             mq == p[3] \div g
         IN  GNorm(p[1] * mp + q[1] * mq, p[2] * mp + q[2] * mq, p[3] * mp)

GMul(p, q) ==
    GNorm(p[1] * q[1] - p[2] * q[2], p[1] * q[2] + p[2] * q[1], p[3] * q[3])

\* sqrt(r1) * sqrt(r2) = RadGcd * sqrt(Rad) for squarefree r1, r2
RadGcd(r1, r2) == GCD(r1, r2)
Rad(r1, r2) == LET g == GCD(r1, r2) IN (r1 \div g) * (r2 \div g)

\* numbers: sets of terms <<r, re, im, den>>
Zero == {}
One == {<<1, 1, 0, 1>>}
ImagUnit == {<<1, 0, 1, 1>>}
NaN == {<<0, 0, 0, 0>>}

Rat(n, d) == IF n = 0 THEN Zero ELSE LET c == GNorm(n, 0, d) IN {<<1, c[1], 0, c[3]>>}

Rads(x) == {t[1] : t \in x}

Coef(x, r) ==
    IF \E t \in x : t[1] = r
    THEN LET t == CHOOSE u \in x : u[1] = r IN <<t[2], t[3], t[4]>>
    ELSE G0

NAdd(x, y) ==
    IF x = NaN \/ y = NaN THEN NaN
    ELSE IF x = Zero THEN y
    ELSE IF y = Zero THEN x
    ELSE LET sum == {<<r>> \o GAdd(Coef(x, r), Coef(y, r)) : r \in Rads(x) \cup Rads(y)}
         IN  {t \in sum : t[2] # 0 \/ t[3] # 0}

NNeg(x) == {<<t[1], -t[2], -t[3], t[4]>> : t \in x}

NSub(x, y) == NAdd(x, NNeg(y))

Conj(x) == {<<t[1], t[2], -t[3], t[4]>> : t \in x}

\* x times the single term t
NMulTerm(x, t) ==
    {<<Rad(u[1], t[1])>> \o
        GMul(GMul(<<u[2], u[3], u[4]>>, <<t[2], t[3], t[4]>>), <<RadGcd(u[1], t[1]), 0, 1>>)
     : u \in x}

RECURSIVE NMulAcc(_, _)
NMulAcc(x, ys) ==
    IF ys = {} THEN Zero
    ELSE LET t == CHOOSE u \in ys : TRUE
         IN  NAdd(NMulTerm(x, t), NMulAcc(x, ys \ {t}))

NMul(x, y) ==
    IF x = NaN \/ y = NaN THEN NaN
    ELSE IF x = Zero \/ y = Zero THEN Zero
    ELSE IF x = One THEN y
    ELSE IF y = One THEN x
    ELSE NMulAcc(x, y)

\* the real part (Complex::re) and Complex::new(re, 0.0)
Re(x) ==
    IF x = NaN THEN NaN ELSE
    {LET c == GNorm(t[2], 0, t[4]) IN <<t[1], c[1], 0, c[3]>> : t \in {u \in x : u[2] # 0}}

\* f64::sqrt of a rational x >= 0: sqrt(a/b) = sa * sqrt(fa * fb) / (sb * fb)
\* where a = sa^2 * fa and b = sb^2 * fb with fa, fb squarefree
SquarePart(n) ==
    LET roots == {s \in 1..n : s * s <= n /\ n % (s * s) = 0}
    IN  CHOOSE s \in roots : \A t \in roots : t <= s

Sqrt(x) ==
    IF x = NaN \/ (\E t \in x : t[2] < 0) THEN NaN
    ELSE IF x = Zero THEN Zero
    ELSE LET t  == CHOOSE u \in x : TRUE
             sa == SquarePart(t[2])
             sb == SquarePart(t[4])
             fa == t[2] \div (sa * sa)
             fb == t[4] \div (sb * sb)
             c  == GNorm(sa, 0, sb * fb)
         IN  {<<fa * fb, c[1], 0, c[3]>>}

\* x <= 0.0 for a rational x
LeqZero(x) == x = Zero \/ \A t \in x : t[2] < 0

\* An angle is a whole number of quarter turns (theta = k * PI / 2), so that
\* theta / 2.0 is k eighths of a turn and cos, sin are 0, +-1 or +-sqrt(2)/2.
HalfSqrt2 == {<<2, 1, 0, 2>>}

Cos(k) ==
    LET m == k % 8
    IN  IF m = 0 THEN One
        ELSE IF m = 4 THEN NNeg(One)
        ELSE IF m \in {2, 6} THEN Zero
        ELSE IF m \in {1, 7} THEN HalfSqrt2
        ELSE NNeg(HalfSqrt2)

Sin(k) == Cos(k - 2)

\* Complex::new(0.0, y).exp() for y = k eighths of a turn
ExpI(k) == NAdd(Cos(k), NMul(ImagUnit, Sin(k)))

(***************************************************************************)
(* DMatrix<Complex<f64>>: nrows, ncols and the entries e[i][j], 0-based.   *)
(***************************************************************************)
from_row_slice(r, c, s) ==
    [nrows |-> r, ncols |-> c,
     e |-> Tab([i \in 0..(r - 1) |-> Tab([j \in 0..(c - 1) |-> s[i * c + j + 1]])])]

zeros(r, c) ==
    [nrows |-> r, ncols |-> c,
     e |-> Tab([i \in 0..(r - 1) |-> Tab([j \in 0..(c - 1) |-> Zero])])]

RECURSIVE Dot(_, _, _, _, _)
Dot(a, b, i, j, k) ==
    IF k = 0 THEN Zero
    ELSE NAdd(Dot(a, b, i, j, k - 1), NMul(a.e[i][k - 1], b.e[k - 1][j]))

\* a * b
MatMul(a, b) ==
    [nrows |-> a.nrows, ncols |-> b.ncols,
     e |-> Tab([i \in 0..(a.nrows - 1) |-> Tab([j \in 0..(b.ncols - 1) |-> Dot(a, b, i, j, a.ncols)])])]

\* a + b
MatAdd(a, b) ==
    [nrows |-> a.nrows, ncols |-> a.ncols,
     e |-> Tab([i \in 0..(a.nrows - 1) |-> Tab([j \in 0..(a.ncols - 1) |-> NAdd(a.e[i][j], b.e[i][j])])])]

adjoint(a) ==
    [nrows |-> a.ncols, ncols |-> a.nrows,
     e |-> Tab([i \in 0..(a.ncols - 1) |-> Tab([j \in 0..(a.nrows - 1) |-> Conj(a.e[j][i])])])]

RECURSIVE DiagSum(_, _)
DiagSum(a, k) == IF k = 0 THEN Zero ELSE NAdd(DiagSum(a, k - 1), a.e[k - 1][k - 1])

MatTrace(a) == DiagSum(a, a.nrows)

(***************************************************************************)
(* gates.rs                                                                *)
(***************************************************************************)
\* pauli_x with its lower-left entry typed as 0.0
pauli_x_typo == from_row_slice(2, 2, <<Zero, One, Zero, Zero>>)

pauli_x == from_row_slice(2, 2, <<Zero, One, One, Zero>>)

pauli_y == from_row_slice(2, 2, <<Zero, NNeg(ImagUnit), ImagUnit, Zero>>)

pauli_z == from_row_slice(2, 2, <<One, Zero, Zero, NNeg(One)>>)

hadamard ==
    LET factor == HalfSqrt2
    IN  from_row_slice(2, 2, <<factor, factor, factor, NNeg(factor)>>)

identity == from_row_slice(2, 2, <<One, Zero, Zero, One>>)

rx(theta) ==
    LET c == Cos(theta)
        s == Sin(theta)
    IN  from_row_slice(2, 2, <<c, NMul(ImagUnit, NNeg(s)), NMul(ImagUnit, NNeg(s)), c>>)

ry(theta) ==
    LET c == Cos(theta)
        s == Sin(theta)
    IN  from_row_slice(2, 2, <<c, NNeg(s), s, c>>)

rz(theta) ==
    LET exp_neg == ExpI(-theta)
        exp_pos == ExpI(theta)
    IN  from_row_slice(2, 2, <<exp_neg, Zero, Zero, exp_pos>>)

kron(a, b) ==
    LET p == b.nrows
        q == b.ncols
    IN  [nrows |-> a.nrows * p, ncols |-> a.ncols * q,
         e |-> Tab([r \in 0..(a.nrows * p - 1) |-> Tab([c \in 0..(a.ncols * q - 1) |->
                  NMul(a.e[r \div p][c \div q], b.e[r % p][c % q])])])]

RECURSIVE KronFold(_, _, _, _, _)
KronFold(result, gate, wire, i, num_qubits) ==
    IF i >= num_qubits THEN result
    ELSE KronFold(kron(result, IF i = wire THEN gate ELSE identity),
                  gate, wire, i + 1, num_qubits)

build_single_qubit_unitary(gate, wire, num_qubits) ==
    KronFold(IF wire = 0 THEN gate ELSE identity, gate, wire, 1, num_qubits)

(***************************************************************************)
(* build_cnot_unitary.  The shift amounts num_qubits - 1 - wire are usize: *)
(* a wire >= num_qubits makes the subtraction underflow, which panics in a *)
(* build with overflow checks and wraps in a build without them, where the *)
(* shift then takes the amount modulo 64.  A flipped index beyond the      *)
(* matrix makes result[(j, i)] panic in every build.                       *)
(***************************************************************************)
UsizeBits == 64

\* an index no matrix of the model has
BeyondMatrix == 2^30

\* a shift by the wire's own number: wire 0 as the least significant bit
ShiftAmount_lsb(num_qubits, wire) == wire % UsizeBits

ShiftAmount(num_qubits, wire) == (num_qubits - 1 - wire) % UsizeBits

\* (i >> s) & 1 for an index i < 2^30
BitAt(i, s) == IF s >= 30 THEN 0 ELSE (i \div (2^s)) % 2

\* i ^ (1 << s)
FlipBit(i, s) ==
    IF s >= 30 THEN BeyondMatrix
    ELSE IF BitAt(i, s) = 1 THEN i - 2^s ELSE i + 2^s

cnot_column(i, control, target, num_qubits) ==
    LET control_bit == BitAt(i, ShiftAmount(num_qubits, control))
    IN  IF control_bit = 1 THEN FlipBit(i, ShiftAmount(num_qubits, target)) ELSE i

cnot_panics(control, target, num_qubits, overflow_checks) ==
    LET dimension == 2^num_qubits
    IN  \/ overflow_checks /\ (num_qubits - 1 - control < 0 \/ num_qubits - 1 - target < 0)
        \/ \E i \in 0..(dimension - 1) : cnot_column(i, control, target, num_qubits) >= dimension

build_cnot_unitary(control, target, num_qubits) ==
    LET dimension == 2^num_qubits
    IN  [nrows |-> dimension, ncols |-> dimension,
         e |-> Tab([j \in 0..(dimension - 1) |-> Tab([i \in 0..(dimension - 1) |->
                  IF cnot_column(i, control, target, num_qubits) = j THEN One ELSE Zero])])]

(***************************************************************************)
(* density_matrix.rs                                                       *)
(***************************************************************************)
DensityMatrix_new(num_qubits) ==
    LET dimension == 2^num_qubits
    IN  [matrix |-> [nrows |-> dimension, ncols |-> dimension,
                     e |-> Tab([i \in 0..(dimension - 1) |-> Tab([j \in 0..(dimension - 1) |->
                              IF i = 0 /\ j = 0 THEN One ELSE Zero])])],
         num_qubits |-> num_qubits]

trace(rho) == MatTrace(rho.matrix)

purity(rho) == Re(MatTrace(MatMul(rho.matrix, rho.matrix)))

dim(rho) == 2^rho.num_qubits

apply_unitary(rho, unitary) ==
    [rho EXCEPT !.matrix = MatMul(MatMul(unitary, rho.matrix), adjoint(unitary))]

RECURSIVE KrausSum(_, _, _)
KrausSum(rho, kraus_ops, k) ==
    IF k = 0 THEN zeros(dim(rho), dim(rho))
    ELSE MatAdd(KrausSum(rho, kraus_ops, k - 1),
                MatMul(MatMul(kraus_ops[k], rho.matrix), adjoint(kraus_ops[k])))

apply_kraus(rho, kraus_ops) ==
    [rho EXCEPT !.matrix = KrausSum(rho, kraus_ops, Len(kraus_ops))]

\* the sign (-1, 0, 1) of a real number: split x = P + sqrt(p) * Q on a prime
\* p of a radicand, and compare P^2 with p * Q^2 when P and Q differ in sign
RECURSIVE Sign(_)
Sign(x) ==
    IF x = Zero THEN 0
    ELSE IF \A t \in x : t[2] > 0 THEN 1
    ELSE IF \A t \in x : t[2] < 0 THEN -1
    ELSE LET rs == Rads(x) \ {1}
             r0 == CHOOSE r \in rs : \A q \in rs : r <= q
             p  == CHOOSE q \in 2..r0 : r0 % q = 0 /\ \A q2 \in 2..(q - 1) : r0 % q2 # 0
             P  == {t \in x : t[1] % p # 0}
             Q  == {<<t[1] \div p, t[2], t[3], t[4]>> : t \in {u \in x : u[1] % p = 0}}
             sP == Sign(P)
             sQ == Sign(Q)
         IN  IF sP = 0 THEN sQ
             ELSE IF sQ = 0 \/ sP = sQ THEN sP
             ELSE sP * Sign(NSub(NMul(P, P), NMul(Rat(p, 1), NMul(Q, Q))))

\* f64::max(x, 0.0), which is 0.0 for a NaN
Max0(x) == IF x = NaN THEN Zero ELSE IF Sign(x) < 0 THEN Zero ELSE x

probabilities(rho) ==
    [i \in 0..(dim(rho) - 1) |-> Max0(Re(rho.matrix.e[i][i]))]

(***************************************************************************)
(* noise_model.rs                                                          *)
(***************************************************************************)
\* amplitude_damping_kraus with gamma where the code has gamma.sqrt()
amplitude_damping_kraus_linear(gamma) ==
    LET k0 == from_row_slice(2, 2, <<One, Zero, Zero, Sqrt(NSub(One, gamma))>>)
        k1 == from_row_slice(2, 2, <<Zero, gamma, Zero, Zero>>)
    IN  <<k0, k1>>

amplitude_damping_kraus(gamma) ==
    LET k0 == from_row_slice(2, 2, <<One, Zero, Zero, Sqrt(NSub(One, gamma))>>)
        k1 == from_row_slice(2, 2, <<Zero, Sqrt(gamma), Zero, Zero>>)
    IN  <<k0, k1>>

dephasing_kraus(lambda) ==
    LET k0 == from_row_slice(2, 2,
                  <<Sqrt(NSub(One, lambda)), Zero, Zero, Sqrt(NSub(One, lambda))>>)
        k1 == from_row_slice(2, 2, <<Sqrt(lambda), Zero, Zero, NNeg(Sqrt(lambda))>>)
    IN  <<k0, k1>>

depolarizing_kraus(p) ==
    LET i == ImagUnit
        one == One
        zero == Zero
        sqrt_1_3p_4 == Sqrt(NSub(One, NMul(NMul(Rat(3, 1), p), Rat(1, 4))))
        sqrt_p_4 == Sqrt(NMul(p, Rat(1, 4)))
        k0 == from_row_slice(2, 2, <<NMul(one, sqrt_1_3p_4), zero, zero, NMul(one, sqrt_1_3p_4)>>)
        k1 == from_row_slice(2, 2, <<zero, NMul(one, sqrt_p_4), NMul(one, sqrt_p_4), zero>>)
        k2 == from_row_slice(2, 2,
                  <<zero, NMul(NNeg(i), sqrt_p_4), NMul(i, sqrt_p_4), zero>>)
        k3 == from_row_slice(2, 2, <<NMul(one, sqrt_p_4), zero, zero, NMul(NNeg(one), sqrt_p_4)>>)
    IN  <<k0, k1, k2, k3>>

expand_kraus_to_full_system(single_qubit_kraus, target_wire, num_qubits) ==
    [m \in 1..Len(single_qubit_kraus) |->
        KronFold(IF target_wire = 0 THEN single_qubit_kraus[m] ELSE identity,
                 single_qubit_kraus[m], target_wire, 1, num_qubits)]

\* apply_depolarizing without its early return
apply_depolarizing_unguarded(rho, wire, p) ==
    apply_kraus(rho,
        expand_kraus_to_full_system(depolarizing_kraus(p), wire, rho.num_qubits))

apply_depolarizing(rho, wire, p) ==
    IF LeqZero(p) THEN rho
    ELSE apply_kraus(rho,
             expand_kraus_to_full_system(depolarizing_kraus(p), wire, rho.num_qubits))

apply_amplitude_damping(rho, wire, gamma) ==
    IF LeqZero(gamma) THEN rho
    ELSE apply_kraus(rho,
             expand_kraus_to_full_system(amplitude_damping_kraus(gamma), wire, rho.num_qubits))

apply_dephasing(rho, wire, lambda) ==
    IF LeqZero(lambda) THEN rho
    ELSE apply_kraus(rho,
             expand_kraus_to_full_system(dephasing_kraus(lambda), wire, rho.num_qubits))

\* apply_idle_noise that calls apply_dephasing first
idle_noise_calls_swapped(wire, protected) ==
    LET suppression_factor == IF protected THEN Rat(1, 5) ELSE One
        gamma  == NMul(Rat(1, 20), suppression_factor)
        lambda == NMul(Rat(1, 50), suppression_factor)
    IN  << <<"apply_dephasing", wire, lambda>>, <<"apply_amplitude_damping", wire, gamma>> >>

\* the calls apply_idle_noise makes, in the order it makes them, each with the
\* wire and the rate it passes
idle_noise_calls(wire, protected) ==
    LET suppression_factor == IF protected THEN Rat(1, 5) ELSE One
        gamma  == NMul(Rat(1, 20), suppression_factor)
        lambda == NMul(Rat(1, 50), suppression_factor)
    IN  << <<"apply_amplitude_damping", wire, gamma>>, <<"apply_dephasing", wire, lambda>> >>

\* rho after the first k of the calls
RECURSIVE RunCalls(_, _, _)
RunCalls(rho, calls, k) ==
    IF k = 0 THEN rho
    ELSE LET call == calls[k]
             before == RunCalls(rho, calls, k - 1)
         IN  IF call[1] = "apply_amplitude_damping"
             THEN apply_amplitude_damping(before, call[2], call[3])
             ELSE IF call[1] = "apply_dephasing"
             THEN apply_dephasing(before, call[2], call[3])
             ELSE apply_depolarizing(before, call[2], call[3])

apply_idle_noise(rho, wire, protected) ==
    LET calls == idle_noise_calls(wire, protected)
    IN  RunCalls(rho, calls, Len(calls))

(***************************************************************************)
(* simulator.rs: QuantumSimulator { state, num_qubits }                    *)
(***************************************************************************)
QuantumSimulator_new(n) == [state |-> DensityMatrix_new(n), num_qubits |-> n]

\* reset that keeps the state it has
reset_keeps_state(self) == self

reset(self) == [self EXCEPT !.state = DensityMatrix_new(self.num_qubits)]

\* What a call of apply_gate does is a record: the simulator after it, the
\* Result it returns, and whether it panicked instead of returning.

\* an error return that has already cleared the state
GateErrClearsState(self, message) ==
    [self |-> [self EXCEPT !.state = DensityMatrix_new(self.num_qubits)],
     result |-> <<"Err", message>>, panicked |-> FALSE]

GateErr(self, message) ==
    [self |-> self, result |-> <<"Err", message>>, panicked |-> FALSE]

GateApplied(self, unitary) ==
    [self |-> [self EXCEPT !.state = apply_unitary(self.state, unitary)],
     result |-> <<"Ok">>, panicked |-> FALSE]

GatePanicked(self) ==
    [self |-> self, result |-> <<"panic">>, panicked |-> TRUE]

apply_gate(self, gate_name, wires, params, overflow_checks) ==
    IF gate_name \in {"PauliX", "X"} THEN
        IF Len(wires) # 1 THEN GateErr(self, <<"PauliX requires exactly 1 wire">>)
        ELSE GateApplied(self, build_single_qubit_unitary(pauli_x, wires[1], self.num_qubits))
    ELSE IF gate_name \in {"PauliY", "Y"} THEN
        IF Len(wires) # 1 THEN GateErr(self, <<"PauliY requires exactly 1 wire">>)
        ELSE GateApplied(self, build_single_qubit_unitary(pauli_y, wires[1], self.num_qubits))
    ELSE IF gate_name \in {"PauliZ", "Z"} THEN
        IF Len(wires) # 1 THEN GateErr(self, <<"PauliZ requires exactly 1 wire">>)
        ELSE GateApplied(self, build_single_qubit_unitary(pauli_z, wires[1], self.num_qubits))
    ELSE IF gate_name \in {"Hadamard", "H"} THEN
        IF Len(wires) # 1 THEN GateErr(self, <<"Hadamard requires exactly 1 wire">>)
        ELSE GateApplied(self, build_single_qubit_unitary(hadamard, wires[1], self.num_qubits))
    ELSE IF gate_name = "RX" THEN
        IF Len(wires) # 1 \/ params = << >>
        THEN GateErr(self, <<"RX requires 1 wire and 1 parameter">>)
        ELSE GateApplied(self, build_single_qubit_unitary(rx(params[1]), wires[1], self.num_qubits))
    ELSE IF gate_name = "RY" THEN
        IF Len(wires) # 1 \/ params = << >>
        THEN GateErr(self, <<"RY requires 1 wire and 1 parameter">>)
        ELSE GateApplied(self, build_single_qubit_unitary(ry(params[1]), wires[1], self.num_qubits))
    ELSE IF gate_name = "RZ" THEN
        IF Len(wires) # 1 \/ params = << >>
        THEN GateErr(self, <<"RZ requires 1 wire and 1 parameter">>)
        ELSE GateApplied(self, build_single_qubit_unitary(rz(params[1]), wires[1], self.num_qubits))
    ELSE IF gate_name \in {"CNOT", "CX"} THEN
        IF Len(wires) # 2 THEN GateErr(self, <<"CNOT requires exactly 2 wires">>)
        ELSE IF cnot_panics(wires[1], wires[2], self.num_qubits, overflow_checks)
        THEN GatePanicked(self)
        ELSE GateApplied(self, build_cnot_unitary(wires[1], wires[2], self.num_qubits))
    ELSE GateErr(self, <<"Unknown gate: ", gate_name>>)

apply_noise(self, wire, protected) ==
    IF wire >= self.num_qubits THEN self
    ELSE [self EXCEPT !.state = apply_idle_noise(self.state, wire, protected)]

\* the calls into the noise model that apply_noise leads to
apply_noise_calls(self, wire, protected) ==
    IF wire >= self.num_qubits THEN << >> ELSE idle_noise_calls(wire, protected)

\* apply_phase_damping without its wire check
apply_phase_damping_unchecked(self, wire, lambda) ==
    [self EXCEPT !.state = apply_dephasing(self.state, wire, lambda)]

apply_phase_damping(self, wire, lambda) ==
    IF wire >= self.num_qubits THEN self
    ELSE [self EXCEPT !.state = apply_dephasing(self.state, wire, lambda)]

sim_apply_depolarizing(self, wire, p) ==
    IF wire >= self.num_qubits THEN self
    ELSE [self EXCEPT !.state = apply_depolarizing(self.state, wire, p)]

\* the call into the noise model that apply_phase_damping (function
\* "apply_dephasing") or apply_depolarizing leads to
single_noise_call(self, function, wire, rate) ==
    IF wire >= self.num_qubits THEN << >> ELSE << <<function, wire, rate>> >>

\* WeightedIndex::new(&probs) is an Err when no weight is positive, and the
\* unwrap then panics; otherwise sample draws an index of positive weight
measure_panics(self) ==
    LET probs == probabilities(self.state)
    IN  \A i \in DOMAIN probs : Sign(probs[i]) <= 0

measure_outcomes(self) ==
    LET probs == probabilities(self.state)
    IN  {i \in DOMAIN probs : Sign(probs[i]) > 0}

\* the bitstring of an outcome, wire 0 first
bitstring(outcome, num_qubits) ==
    [i \in 1..num_qubits |-> BitAt(outcome, num_qubits - 1 - (i - 1))]

get_metrics(self) == <<Re(trace(self.state)), purity(self.state)>>

(***************************************************************************)
(* One simulator object and the calls made on it.                          *)
(***************************************************************************)
VARIABLES
    state,            \* QuantumSimulator.state, a DensityMatrix
    num_qubits,       \* QuantumSimulator.num_qubits
    ret,              \* the last call: its name, the arguments of a noise call
                      \* (<< >> for the other calls) and what it returned
    aborted,          \* a call panicked: the process is gone
    only_gates,       \* every call since new or the last reset was an apply_gate
                      \* that returned Ok
    steps,            \* calls made so far
    noise_calls       \* the calls into the noise model that the last call made,
                      \* in order: <<function, wire, rate>>

vars == <<state, num_qubits, ret, aborted, only_gates, steps, noise_calls>>

MaxSteps == 2

QubitCounts == {1, 2}

GateNames ==
    {"PauliX", "X", "PauliY", "Y", "PauliZ", "Z", "Hadamard", "H",
     "RX", "RY", "RZ", "CNOT", "CX", "CZ", "SWAP"}

\* wire arguments: every wire of the simulator and the first index beyond it
Wires == 0..num_qubits

WireLists == UNION {[1..k -> Wires] : k \in 0..2}

\* angles, in quarter turns
ParamLists == {<< >>, <<1>>, <<2, 1>>}

\* The build traps integer overflow (a debug build) or wraps (a release build);
\* only build_cnot_unitary computes anything that can overflow, and only for a
\* wire >= num_qubits.
Builds(gate_name, wires) ==
    IF gate_name \in {"CNOT", "CX"} /\ \E k \in DOMAIN wires : wires[k] >= num_qubits
    THEN BOOLEAN ELSE {TRUE}

\* rates handed to the noise calls
Rates == {Rat(-1, 2), Zero, Rat(1, 2), One}

ShotCounts == 0..1

Self == [state |-> state, num_qubits |-> num_qubits]

Init ==
    /\ num_qubits \in QubitCounts
    /\ state = QuantumSimulator_new(num_qubits).state
    /\ ret = [op |-> "new", args |-> << >>, value |-> <<"unit">>]
    /\ aborted = FALSE
    /\ only_gates = TRUE
    /\ steps = 0
    /\ noise_calls = << >>

Running == ~aborted /\ steps < MaxSteps

Returns(op, args, self, value) ==
    /\ state' = self.state
    /\ ret' = [op |-> op, args |-> args, value |-> value]
    /\ aborted' = FALSE
    /\ only_gates' = IF op = "reset" THEN TRUE
                     ELSE only_gates /\ op = "apply_gate" /\ value = <<"Ok">>
    /\ steps' = steps + 1
    /\ UNCHANGED num_qubits

Panics(op) ==
    /\ ret' = [op |-> op, args |-> << >>, value |-> <<"panic">>]
    /\ aborted' = TRUE
    /\ only_gates' = FALSE
    /\ steps' = steps + 1
    /\ UNCHANGED <<state, num_qubits>>

ApplyGate ==
    /\ Running
    /\ \E gate_name \in GateNames, wires \in WireLists, params \in ParamLists :
       \E overflow_checks \in Builds(gate_name, wires) :
          \E r \in {apply_gate(Self, gate_name, wires, params, overflow_checks)} :
              IF r.panicked THEN Panics("apply_gate")
              ELSE Returns("apply_gate", << >>, r.self, r.result)
    /\ noise_calls' = << >>

ApplyNoise ==
    /\ Running
    /\ \E wire \in Wires, protected \in BOOLEAN :
          /\ Returns("apply_noise", <<wire, protected>>,
                     apply_noise(Self, wire, protected), <<"unit">>)
          /\ noise_calls' = apply_noise_calls(Self, wire, protected)

ApplyPhaseDamping ==
    /\ Running
    /\ \E wire \in Wires, lambda \in Rates :
          /\ Returns("apply_phase_damping", <<wire, lambda>>,
                     apply_phase_damping(Self, wire, lambda), <<"unit">>)
          /\ noise_calls' = single_noise_call(Self, "apply_dephasing", wire, lambda)

ApplyDepolarizing ==
    /\ Running
    /\ \E wire \in Wires, p \in Rates :
          /\ Returns("apply_depolarizing", <<wire, p>>,
                     sim_apply_depolarizing(Self, wire, p), <<"unit">>)
          /\ noise_calls' = single_noise_call(Self, "apply_depolarizing", wire, p)

\* a measure that collapses the state onto the outcome it returns
MeasureCollapses ==
    /\ Running
    /\ IF measure_panics(Self) THEN Panics("measure")
       ELSE \E outcome \in measure_outcomes(Self) :
               Returns("measure", << >>,
                       [Self EXCEPT !.state.matrix.e =
                           [i \in DOMAIN @ |-> [j \in DOMAIN @ |->
                               IF i = outcome /\ j = outcome THEN One ELSE Zero]]],
                       <<"bits", bitstring(outcome, num_qubits)>>)
    /\ noise_calls' = << >>

Measure ==
    /\ Running
    /\ IF measure_panics(Self) THEN Panics("measure")
       ELSE \E outcome \in measure_outcomes(Self) :
               Returns("measure", << >>, Self, <<"bits", bitstring(outcome, num_qubits)>>)
    /\ noise_calls' = << >>

MeasureShots ==
    /\ Running
    /\ \E n_shots \in ShotCounts :
          IF n_shots > 0 /\ measure_panics(Self) THEN Panics("measure_shots")
          ELSE \E outcomes \in [1..n_shots -> measure_outcomes(Self)] :
                  Returns("measure_shots", << >>, Self,
                          <<"shots", [k \in 1..n_shots |-> bitstring(outcomes[k], num_qubits)]>>)
    /\ noise_calls' = << >>

GetMetrics ==
    /\ Running
    /\ Returns("get_metrics", << >>, Self, <<"metrics", get_metrics(Self)>>)
    /\ noise_calls' = << >>

Reset ==
    /\ Running
    /\ Returns("reset", << >>, reset(Self), <<"unit">>)
    /\ noise_calls' = << >>

Next ==
    \/ ApplyGate
    \/ ApplyNoise
    \/ ApplyPhaseDamping
    \/ ApplyDepolarizing
    \/ Measure
    \/ MeasureShots
    \/ GetMetrics
    \/ Reset

Spec == Init /\ [][Next]_vars

(***************************************************************************)
(* The claims.                                                             *)
(***************************************************************************)
IsErr(result) == result[1] = "Err"

IsUnknownGate(result) == IsErr(result) /\ result[2][1] = "Unknown gate: "

IsArityMismatch(result) == IsErr(result) /\ result[2][1] # "Unknown gate: "

\* the |0...0><0...0| projector of n qubits, entry by entry
IsGround(matrix, n) ==
    /\ matrix.nrows = 2^n
    /\ matrix.ncols = 2^n
    /\ DOMAIN matrix.e = 0..(2^n - 1)
    /\ \A i \in 0..(2^n - 1) :
          /\ DOMAIN matrix.e[i] = 0..(2^n - 1)
          /\ \A j \in 0..(2^n - 1) :
                matrix.e[i][j] = IF i = 0 /\ j = 0 THEN One ELSE Zero

\* the state is a superposition: it has a nonzero entry off the diagonal
HasCoherence == state.matrix.e[0][1] # Zero

NoiseCalls == {"apply_noise", "apply_phase_damping", "apply_depolarizing"}

\* C1: a call of apply_gate that returns an error leaves the density matrix,
\* of which get_metrics is a function, exactly as it was before the call.
C1_ErrorLeavesState ==
    [][(ret'.op = "apply_gate" /\ IsErr(ret'.value)) => state' = state]_vars

\* C1 witness: apply_gate returned an arity error on a simulator in a superposition
C1_Witness ==
    ret.op = "apply_gate" /\ IsArityMismatch(ret.value) /\ HasCoherence

\* the fixed arity of each gate name apply_gate resolves
ResolvedNames ==
    {"PauliX", "X", "PauliY", "Y", "PauliZ", "Z", "Hadamard", "H",
     "RX", "RY", "RZ", "CNOT", "CX"}

WireArity(gate_name) == IF gate_name \in {"CNOT", "CX"} THEN 2 ELSE 1

ParamArity(gate_name) == IF gate_name \in {"RX", "RY", "RZ"} THEN 1 ELSE 0

\* C2: for a resolved gate name, apply_gate returns an ArityMismatch error
\* whenever the number of wires or of parameters differs from the gate's fixed
\* arity (too many parameters included), and returns Ok only when both match.
C2_ArityChecked ==
    \A gate_name \in ResolvedNames, wires \in WireLists, params \in ParamLists :
        LET result  == apply_gate(Self, gate_name, wires, params, TRUE).result
            matches == /\ Len(wires) = WireArity(gate_name)
                       /\ Len(params) = ParamArity(gate_name)
        IN  /\ ~matches => IsArityMismatch(result)
            /\ result = <<"Ok">> => matches

Catalog == {"X", "Y", "Z", "H", "RX", "RY", "RZ", "CNOT", "CZ"}

Aliases ==
    {<<"PauliX", "X">>, <<"PauliY", "Y">>, <<"PauliZ", "Z">>,
     <<"Hadamard", "H">>, <<"CX", "CNOT">>}

\* C3: apply_gate returns an UnknownGate error exactly for the names that are
\* neither in the catalog (X, Y, Z, H, RX, RY, RZ, CNOT, CZ) nor an alias, and
\* an alias does what its partner name does.
C3_UnknownIffNotInCatalog ==
    \A wires \in WireLists, params \in ParamLists, overflow_checks \in BOOLEAN :
        /\ \A gate_name \in GateNames :
              IsUnknownGate(apply_gate(Self, gate_name, wires, params, overflow_checks).result)
                 <=> gate_name \notin Catalog \cup {a[1] : a \in Aliases}
        /\ \A a \in Aliases :
              apply_gate(Self, a[1], wires, params, overflow_checks)
                 = apply_gate(Self, a[2], wires, params, overflow_checks)

\* C4: no call panics: every operation returns.
C4_NoPanic == ~aborted

\* C5: after successful apply_gate calls alone, from the ground state of a new
\* or reset simulator, the trace of the density matrix is 1.
C5_TraceOne == only_gates => trace(state) = One

\* C6: a noise call of the simulator with wire >= n returns normally and
\* leaves the density matrix exactly as it was.
C6_OutOfRangeWireIsNoOp ==
    [][(ret'.op \in NoiseCalls /\ ret'.args[1] >= num_qubits)
          => (state' = state /\ ret'.value = <<"unit">> /\ ~aborted')]_vars

\* C6 witness: a phase damping of rate 1/2 on the wire beyond the last one acted
\* on a simulator in a superposition
C6_Witness ==
    /\ ret.op = "apply_phase_damping"
    /\ ret.args = <<num_qubits, Rat(1, 2)>>
    /\ HasCoherence

\* C7: apply_amplitude_damping, apply_dephasing and apply_depolarizing with a
\* rate <= 0 leave the density matrix entry for entry unchanged, on any wire.
C7_NonPositiveRateIsNoOp ==
    \A wire \in Wires, rate \in {r \in Rates : LeqZero(r)} :
        /\ apply_amplitude_damping(state, wire, rate) = state
        /\ apply_dephasing(state, wire, rate) = state
        /\ apply_depolarizing(state, wire, rate) = state

\* C7 witness: a depolarizing call with a negative rate on a wire of the
\* simulator acted on a superposition
C7_Witness ==
    /\ ret.op = "apply_depolarizing"
    /\ ret.args = <<0, Rat(-1, 2)>>
    /\ HasCoherence

\* C8: measure and measure_shots leave the density matrix as it was.
C8_MeasureKeepsState ==
    [][ret'.op \in {"measure", "measure_shots"} => state' = state]_vars

\* C8 witness: a measure returned from a state in which both outcomes of a
\* qubit have probability 1/2
C8_Witness ==
    /\ ret.op = "measure"
    /\ ret.value[1] = "bits"
    /\ state.matrix.e[0][0] = Rat(1, 2)
    /\ HasCoherence

\* C9: reset leaves the ground state of the n qubits given at construction, and
\* the qubit count and the dimension of the matrix never change.
C9_ResetToGround ==
    /\ [](/\ state.num_qubits = num_qubits
          /\ state.matrix.nrows = 2^num_qubits
          /\ state.matrix.ncols = 2^num_qubits
          /\ ret.op = "reset" => IsGround(state.matrix, num_qubits))
    /\ [][num_qubits' = num_qubits]_vars

\* C9 witness: a reset returned as the second call on a two-qubit simulator
C9_Witness == ret.op = "reset" /\ steps >= 2 /\ num_qubits = 2

\* the state after apply_gate("X", [wire], [])
AfterX(self, wire) == apply_gate(self, "X", <<wire>>, << >>, TRUE).self

\* C10: X applied twice to the same wire restores the density matrix exactly.
C10_XTwiceRestores ==
    \A wire \in Wires : AfterX(AfterX(Self, wire), wire).state = state

\* C10 witness: a superposition that one X on wire 0 changes
C10_Witness ==
    /\ HasCoherence
    /\ AfterX(Self, 0).state # state
    /\ AfterX(AfterX(Self, 0), 0).state = state

\* the rates n/d of [0, 1] with a denominator up to MaxDen
MaxDen == 4

UnitRates == UNION {{Rat(n, d) : n \in 0..d} : d \in 1..MaxDen}

\* sum += k.adjoint() * k over the first k operators
RECURSIVE CompletenessSum(_, _)
CompletenessSum(kraus, k) ==
    IF k = 0 THEN zeros(2, 2)
    ELSE MatAdd(CompletenessSum(kraus, k - 1), MatMul(adjoint(kraus[k]), kraus[k]))

IsComplete(kraus) == CompletenessSum(kraus, Len(kraus)) = identity

\* C11: for a rate in [0, 1] the Kraus sets of amplitude damping, dephasing and
\* depolarizing each sum (K^dagger K over the set) to the 2x2 identity, and a
\* noise call of the simulator leaves the trace of the density matrix as it was.
\* The arithmetic is exact: the equality is that of the real numbers the f64
\* values stand for.
C11_KrausComplete ==
    /\ [](\A rate \in UnitRates :
             /\ IsComplete(amplitude_damping_kraus(rate))
             /\ IsComplete(dephasing_kraus(rate))
             /\ IsComplete(depolarizing_kraus(rate)))
    /\ [][ret'.op \in NoiseCalls => trace(state') = trace(state)]_vars

\* C11 witness: idle noise (amplitude damping, then dephasing) acted on a wire
\* of a simulator in a superposition and changed its density matrix
C11_Witness ==
    /\ ret.op = "apply_noise"
    /\ ret.args = <<0, FALSE>>
    /\ HasCoherence
    /\ state.matrix.e[0][1] # Rat(1, 2)
    /\ trace(state) = One

\* qubit counts of the CNOT matrices compared entry by entry
MaxCnotQubits == 3

\* the bit of wire w in the basis index i of n qubits: wire 0 is the most
\* significant bit
WireBit(i, w, n) == (i \div 2^(n - 1 - w)) % 2

\* the index i with the bit of wire w flipped
WireFlipped(i, w, n) ==
    IF WireBit(i, w, n) = 1 THEN i - 2^(n - 1 - w) ELSE i + 2^(n - 1 - w)

\* where CNOT(control, target) sends the basis index i
CnotImage(i, control, target, n) ==
    IF WireBit(i, control, n) = 1 THEN WireFlipped(i, target, n) ELSE i

\* the simulator after X on wire 0 and after CNOT(0, 1) following it, from the
\* ground state of two qubits
BellPrepX == apply_gate(QuantumSimulator_new(2), "X", <<0>>, << >>, TRUE)

BellPrepCnot == apply_gate(BellPrepX.self, "CNOT", <<0, 1>>, << >>, TRUE)

\* C12: for 2 <= n and distinct wires control, target < n, build_cnot_unitary
\* is the permutation matrix that sends the basis index i to i with its target
\* bit flipped when its control bit is 1 and to i otherwise (wire w is bit
\* n-1-w), and it is built without a panic in either build.  The matrices do
\* not depend on the state of the simulator, so they are compared once, on the
\* simulator as constructed.  On two qubits X on wire 0 followed by CNOT(0, 1)
\* puts all the probability on index 3.
C12_CnotPermutes ==
    /\ ret.op = "new" =>
          \A n \in 2..MaxCnotQubits, control \in 0..(MaxCnotQubits - 1), target \in 0..(MaxCnotQubits - 1) :
             (control < n /\ target < n /\ control # target) =>
                LET unitary == build_cnot_unitary(control, target, n)
                    indices == 0..(2^n - 1)
                IN  /\ \A overflow_checks \in BOOLEAN : ~cnot_panics(control, target, n, overflow_checks)
                    /\ unitary.nrows = 2^n /\ unitary.ncols = 2^n
                    /\ \A i \in indices, j \in indices :
                          unitary.e[j][i] = IF j = CnotImage(i, control, target, n) THEN One ELSE Zero
                    /\ {CnotImage(i, control, target, n) : i \in indices} = indices
    /\ BellPrepX.result = <<"Ok">>
    /\ BellPrepCnot.result = <<"Ok">>
    /\ probabilities(BellPrepCnot.self.state) = [i \in 0..3 |-> IF i = 3 THEN One ELSE Zero]

\* C12 witness: a two-qubit simulator that got X on wire 0 and then CNOT(0, 1):
\* all the probability is on index 3, where X alone had left it on index 2
C12_Witness ==
    /\ num_qubits = 2
    /\ steps = 2
    /\ ret.op = "apply_gate"
    /\ state = BellPrepCnot.self.state
    /\ state.matrix.e[3][3] = One
    /\ BellPrepX.self.state.matrix.e[2][2] = One

\* the rates of idle noise: 0.05 and 0.02, each times 0.2 when protected
IdleGamma(protected) == IF protected THEN NMul(Rat(1, 20), Rat(1, 5)) ELSE Rat(1, 20)

IdleLambda(protected) == IF protected THEN NMul(Rat(1, 50), Rat(1, 5)) ELSE Rat(1, 50)

====
